---- MODULE Spec2Model ----
(***************************************************************************)
(* Matching core of the contracts project: the filter-funnel engine        *)
(* (app/services/matching/engine.py), the Tier-2 deep review               *)
(* (scripts/trigger_deep_review.py), the ingestion worker                  *)
(* (app/workers/ingestion_worker.py) with its enrichment and alert         *)
(* services, over the relational store declared in app/models.py.          *)
(*                                                                         *)
(* Tables are partial functions: DOMAIN t is the set of stored keys.       *)
(* Scores are integers in units of 1/10000 (NUMERIC(5,4)).                 *)
(***************************************************************************)
EXTENDS Integers, Sequences, FiniteSets, TLC

\* ------------------------------------------------------------------ bounds
MaxNotices == 2
MaxOps == 3
MaxReleases == 2
MaxRuns == 2

\* ------------------------------------------------------- program constants
TopK == 10
IncomeNationalThreshold == 5000000
GoThreshold == 6500
WeightSemantic == 40
WeightTheme == 30
WeightDomain == 20
WeightGeo == 10
CpvPrefixLen == 4
Epoch == 0

\* --------------------------------------------------------------- vocabulary
NULL == "null"
NullNum == -1
Orgs == {"P1", "P2"}
Ocids == 1..MaxNotices

Restrict(f, S) == [x \in S |-> f[x]]
Put(f, k, v) == [x \in (DOMAIN f) \cup {k} |-> IF x = k THEN v ELSE f[x]]
Range(s) == {s[i] : i \in DOMAIN s}
Min(a, b) == IF a < b THEN a ELSE b
Max(a, b) == IF a > b THEN a ELSE b

\* str.lower() on the tokens and region names the model uses
Lower(w) ==
  CASE w = "TUPE" -> "tupe"
    [] w = "Safeguarding" -> "safeguarding"
    [] w = "Cleaning" -> "cleaning"
    [] w = "London" -> "london"
    [] w = "UK" -> "uk"
    [] w = "National" -> "national"
    [] w = "United Kingdom" -> "united kingdom"
    [] w = "Leeds" -> "leeds"
    [] w = "Wales" -> "wales"
    [] OTHER -> w

\* a text is the sequence of its words; `kw in content` on the lowercased text
LowerWords(text) == {Lower(w) : w \in Range(text)}

\* c[:4]
CpvPrefix(c) == SubSeq(c, 1, Min(CpvPrefixLen, Len(c)))
CpvPrefixes(codes) == {CpvPrefix(c) : c \in codes}

\* code.startswith(p)
StartsWith(code, p) == Len(p) <= Len(code) /\ SubSeq(code, 1, Len(p)) = p

\* MatchingEngine.THEME_MAPPING, restricted to the themes the profiles use
ThemeMapped == {"Accommodation/housing", "Disability", "Overseas Aid/famine Relief"}
THEME_MAPPING(theme) ==
  CASE theme = "Accommodation/housing" -> <<"HO">>
    [] theme = "Disability" -> <<"BE">>
    [] theme = "Overseas Aid/famine Relief" -> <<"EC", 103>>

\* cosine(profile_embedding, notice embedding), in 1/10000
Cosine(a, b) ==
  CASE a = "pe1" /\ b = "e1" -> 9000
    [] a = "pe1" /\ b = "e2" -> 2000
    [] a = "pe2" /\ b = "e1" -> 10000
    [] a = "pe2" /\ b = "e2" -> 0 - 3000
    [] a = "pe1" /\ b = "e3" -> 1250
    [] a = "pe1" /\ b = "e4" -> 1251
    [] OTHER -> 0

\* ----------------------------------------------------------------- state
VARIABLES
  profiles,   \* service_profile: org_id -> row
  notices,    \* notice: ocid -> row
  matches,    \* notice_match: <<org_id, ocid>> -> row
  alerts,     \* alert rows, in insertion order
  buyers,     \* buyer slugs
  logs,       \* ingestion_log rows, in insertion order
  calc,       \* the running calculate_matches call and its session
  worker,     \* the running IngestionWorker.run call and its session
  feed,       \* releases the OCDS source still has to yield in this run
  ops         \* operations other than recalculation performed so far

vars == <<profiles, notices, matches, alerts, buyers, logs, calc, worker, feed, ops>>

\* ------------------------------------------------------------ fixtures
NoSuit == [declared |-> FALSE, vcse |-> FALSE, sme |-> FALSE]
VcseSuit == [declared |-> TRUE, vcse |-> TRUE, sme |-> FALSE]
NeitherSuit == [declared |-> TRUE, vcse |-> FALSE, sme |-> FALSE]

LocalProfile ==
  [income |-> 250000, regions |-> {"London"}, inferred_cpv_codes |-> {<<8, 5, 3, 1, 1, 1>>},
   exclusion_keywords |-> {}, ukcat_codes |-> {"Accommodation/housing"},
   profile_embedding |-> "pe1"]

NationalProfile ==
  [income |-> 6000000, regions |-> {"UK"}, inferred_cpv_codes |-> {},
   exclusion_keywords |-> {}, ukcat_codes |-> {},
   profile_embedding |-> "pe2"]

InitProfiles == [o \in Orgs |-> IF o = "P1" THEN LocalProfile ELSE NationalProfile]

\* keywords scripts/seed_precision_filters.py installs for a profile
SeedKeywords(o) == IF o = "P1" THEN {"Cleaning"} ELSE {"drones"}

BaseNotice ==
  [title |-> <<"care">>, description |-> <<"housing", "support">>,
   value_amount |-> 90000, deadline_date |-> 10, notice_type |-> "contractNotice",
   cpv_codes |-> {<<8, 5, 3, 1, 1, 0>>}, inferred_ukcat_codes |-> {<<"HO", 101>>},
   embedding |-> "e1", provider_summary_embedding |-> NULL,
   buyer |-> "b1", is_archived |-> FALSE, category |-> "services",
   suitability |-> NoSuit, lots |-> <<>>, regions |-> {"London"}, buyer_region |-> NULL]

\* the stored notices a run of the engine can meet
NoticeKinds ==
  << BaseNotice,
     [BaseNotice EXCEPT !.description = <<"TUPE", "applies">>],
     [BaseNotice EXCEPT !.title = <<"school", "Cleaning">>, !.embedding = "e2"],
     [BaseNotice EXCEPT !.value_amount = 2000000, !.regions = {}, !.cpv_codes = {},
                        !.inferred_ukcat_codes = {}],
     [BaseNotice EXCEPT !.category = "goods"],
     [BaseNotice EXCEPT !.regions = {"Leeds"}, !.suitability = VcseSuit,
                        !.embedding = NULL] >>

\* ------------------------------------------------------- matching engine
\* MatchingEngine._extract_charity_regions
ExtractCharityRegions(profile) == profile.regions

\* a classification that counts an income of exactly 5,000,000 as national
IsNationalCharityAtLeast(profile) ==
  \/ profile.income >= IncomeNationalThreshold
  \/ \E r \in ExtractCharityRegions(profile) :
       Lower(r) \in {"national", "united kingdom", "uk"}

\* MatchingEngine._is_national_charity
IsNationalCharity(profile) ==
  \/ profile.income > IncomeNationalThreshold
  \/ \E r \in ExtractCharityRegions(profile) :
       Lower(r) \in {"national", "united kingdom", "uk"}

\* Stage 1: the SQL pre-filter of calculate_matches
IsCandidate(n) == ~n.is_archived /\ Lower(n.category) = "services"

LotSuit(n) == {n.lots[i].suitability : i \in DOMAIN n.lots}
IsVcseSuitable(n) == n.suitability.vcse \/ \E s \in LotSuit(n) : s.vcse
IsSmeSuitable(n) == n.suitability.sme \/ \E s \in LotSuit(n) : s.sme
SuitDeclared(n) == n.suitability.declared \/ \E s \in LotSuit(n) : s.declared

\* Stage 2: VCSE/SME gate
DroppedVcse(n) == ~IsVcseSuitable(n) /\ ~IsSmeSuitable(n) /\ SuitDeclared(n)

\* lot.value.amountGross or lot.value.amount or 0
LotVal(lot) ==
  IF lot.amountGross # NullNum /\ lot.amountGross # 0 THEN lot.amountGross
  ELSE IF lot.amount # NullNum /\ lot.amount # 0 THEN lot.amount
  ELSE 0

\* lots whose value is at most 40% of the charity income
SuitableLots(profile, n) ==
  {i \in DOMAIN n.lots : profile.income > 0 /\ 10 * LotVal(n.lots[i]) <= 4 * profile.income}

NoticeVal(n) == IF n.value_amount = NullNum THEN 0 ELSE n.value_amount

\* a value gate that also drops a total of exactly 40% of the income
DroppedValueAtLeast(profile, n) ==
  /\ SuitableLots(profile, n) = {}
  /\ profile.income > 0
  /\ 10 * NoticeVal(n) >= 4 * profile.income

\* Stage 3: value gate
DroppedValue(profile, n) ==
  /\ SuitableLots(profile, n) = {}
  /\ profile.income > 0
  /\ 10 * NoticeVal(n) > 4 * profile.income

\* delivery-address regions, else the buyer party's region, lowercased
NoticeRegions(n) ==
  IF n.regions # {} THEN {Lower(r) : r \in n.regions}
  ELSE IF n.buyer_region # NULL THEN {Lower(n.buyer_region)}
  ELSE {}

GeoOverlap(profile, n) ==
  NoticeRegions(n) \cap {Lower(r) : r \in ExtractCharityRegions(profile)}

\* Stage 4: geo gate
DroppedGeo(profile, n) ==
  /\ ~IsNationalCharity(profile)
  /\ NoticeRegions(n) # {}
  /\ GeoOverlap(profile, n) = {}

ScoreGeo(profile, n) ==
  IF IsNationalCharity(profile)
  THEN (IF GeoOverlap(profile, n) # {} \/ NoticeRegions(n) = {} THEN 10000 ELSE 2500)
  ELSE (IF NoticeRegions(n) # {} /\ GeoOverlap(profile, n) # {} THEN 10000 ELSE 5000)

\* a CPV gate that compares whole codes
DroppedCpvWholeCodes(profile, n) ==
  /\ profile.inferred_cpv_codes # {}
  /\ n.cpv_codes # {}
  /\ n.cpv_codes \cap profile.inferred_cpv_codes = {}

\* Stage 5: CPV prefix gate
DroppedCpv(profile, n) ==
  /\ CpvPrefixes(profile.inferred_cpv_codes) # {}
  /\ CpvPrefixes(n.cpv_codes) # {}
  /\ CpvPrefixes(n.cpv_codes) \cap CpvPrefixes(profile.inferred_cpv_codes) = {}

ScoreDomain(profile, n) ==
  IF CpvPrefixes(profile.inferred_cpv_codes) # {} /\ CpvPrefixes(n.cpv_codes) # {}
  THEN 10000 ELSE 5000

NoticeText(n) == LowerWords(n.title) \cup LowerWords(n.description)

\* exclusion keywords gate
DroppedExclusion(profile, n) ==
  \E kw \in profile.exclusion_keywords : Lower(kw) \in NoticeText(n)

\* Stage 6: UKCAT theme score
CharityUkcatCodes(profile) ==
  {THEME_MAPPING(t) : t \in profile.ukcat_codes \cap ThemeMapped}

ThemeMatches(profile, n) ==
  {p \in CharityUkcatCodes(profile) : \E code \in n.inferred_ukcat_codes : StartsWith(code, p)}

ScoreTheme(profile, n) ==
  IF CharityUkcatCodes(profile) = {} THEN 5000
  ELSE (10000 * Cardinality(ThemeMatches(profile, n))) \div Cardinality(CharityUkcatCodes(profile))

\* Stage 7: semantic score
TargetEmb(n) ==
  IF n.provider_summary_embedding # NULL THEN n.provider_summary_embedding ELSE n.embedding

\* a semantic score without the max(0.0, ...) clamp
ScoreSemanticUnclamped(profile, n) ==
  IF TargetEmb(n) # NULL /\ profile.profile_embedding # NULL
  THEN Cosine(profile.profile_embedding, TargetEmb(n))
  ELSE 0

ScoreSemantic(profile, n) ==
  IF TargetEmb(n) # NULL /\ profile.profile_embedding # NULL
  THEN Max(0, Cosine(profile.profile_embedding, TargetEmb(n)))
  ELSE 0

\* total_score, in 1/1000000
TotalScore(profile, n) ==
  ScoreSemantic(profile, n) * WeightSemantic + ScoreTheme(profile, n) * WeightTheme
    + ScoreDomain(profile, n) * WeightDomain + ScoreGeo(profile, n) * WeightGeo

\* RenewalEnrichmentService._get_buyer_history is non-empty
BuyerSeenBefore(n, table) ==
  /\ n.buyer # NULL
  /\ \E h \in DOMAIN table :
       /\ table[h].buyer = n.buyer
       /\ table[h].notice_type = "historical"
       /\ \/ n.cpv_codes = {}
          \/ CpvPrefixes(table[h].cpv_codes) \cap CpvPrefixes(n.cpv_codes) # {}

RiskFlags(n, table) ==
  [TUPE |-> "tupe" \in NoticeText(n),
   Safeguarding |-> "safeguarding" \in NoticeText(n),
   is_vcse |-> IsVcseSuitable(n),
   is_sme |-> IsSmeSuitable(n),
   renewal_radar |-> BuyerSeenBefore(n, table)]

\* a status decision that gives GO at a total of exactly 0.65
StatusOfAtLeast(total, tupe, deep_verdict) ==
  IF deep_verdict = "PASS" THEN "GO"
  ELSE IF deep_verdict = "FAIL" THEN "NO-GO"
  ELSE IF tupe THEN "REVIEW"
  ELSE IF total >= GoThreshold * 100 THEN "GO"
  ELSE "REVIEW"

\* the status decision, with the Tier 2 override
StatusOf(total, tupe, deep_verdict) ==
  IF deep_verdict = "PASS" THEN "GO"
  ELSE IF deep_verdict = "FAIL" THEN "NO-GO"
  ELSE IF tupe THEN "REVIEW"
  ELSE IF total > GoThreshold * 100 THEN "GO"
  ELSE "REVIEW"

Reasons(profile, n, table, deep_verdict) ==
  <<IF IsVcseSuitable(n) THEN "vcse" ELSE IF IsSmeSuitable(n) THEN "sme" ELSE "generic">>
  \o (IF SuitableLots(profile, n) # {} THEN <<"suitable lots">>
      ELSE IF NoticeVal(n) # 0 THEN <<"value within 40%">> ELSE <<>>)
  \o <<IF GeoOverlap(profile, n) # {} THEN "Local Match" ELSE "National Reach">>
  \o <<"cpv">>
  \o (IF ThemeMatches(profile, n) # {} THEN <<"theme">> ELSE <<>>)
  \o (IF BuyerSeenBefore(n, table) THEN <<"radar">> ELSE <<>>)
  \o (IF deep_verdict = "PASS" THEN <<"Tier 2 PASS">>
      ELSE IF deep_verdict = "FAIL" THEN <<"Tier 2 FAIL">> ELSE <<>>)

\* a candidate that no hard gate drops
PassesGates(profile, n) ==
  /\ ~DroppedVcse(n)
  /\ ~DroppedValue(profile, n)
  /\ ~DroppedGeo(profile, n)
  /\ ~DroppedCpv(profile, n)
  /\ ~DroppedExclusion(profile, n)

\* the NoticeMatch record the loop body builds for one candidate
MatchRecord(profile, n, table, deep_verdict) ==
  [score |-> (TotalScore(profile, n) + 50) \div 100,
   score_semantic |-> ScoreSemantic(profile, n),
   score_domain |-> ScoreDomain(profile, n),
   score_geo |-> ScoreGeo(profile, n),
   score_theme |-> ScoreTheme(profile, n),
   feedback_status |-> StatusOf(TotalScore(profile, n), RiskFlags(n, table).TUPE, deep_verdict),
   risk_flags |-> RiskFlags(n, table),
   recommendation_reasons |-> Reasons(profile, n, table, deep_verdict),
   deep_verdict |-> NULL,
   deep_rationale |-> NULL,
   is_tracked |-> FALSE]

\* ---------------------------------------------- calculate_matches(org_id)
EmptyMap == [x \in {} |-> NULL]

IdleCalc ==
  [pc |-> "idle", org |-> NULL, existing |-> EmptyMap, cands |-> EmptyMap,
   toWrite |-> EmptyMap, upd |-> EmptyMap, add |-> EmptyMap, del |-> {}]

\* existing_matches: the rows of org_id, keyed by notice_id
ExistingMatches(o) == [n \in {m \in Ocids : <<o, m>> \in DOMAIN matches} |-> matches[<<o, n>>]]

\* the candidates the Stage 1 query returns
Candidates == [n \in {m \in DOMAIN notices : IsCandidate(notices[m])} |-> notices[n]]

\* load the profile, the existing rows and the candidates
CalcStart(o) ==
  /\ calc.pc = "idle"
  /\ worker.pc = "idle"
  /\ o \in DOMAIN profiles
  /\ calc' = [IdleCalc EXCEPT !.pc = "loaded", !.org = o,
                              !.existing = ExistingMatches(o), !.cands = Candidates]
  /\ UNCHANGED <<profiles, notices, matches, alerts, buyers, logs, worker, feed, ops>>

ExistingVerdict(existing, n) ==
  IF n \in DOMAIN existing THEN existing[n].deep_verdict ELSE NULL

\* matches_to_write: one record per candidate that passes every gate
MatchesToWrite(profile, cands, table, existing) ==
  [n \in {m \in DOMAIN cands : PassesGates(profile, cands[m])} |->
     MatchRecord(profile, cands[n], table, ExistingVerdict(existing, n))]

\* the loop over the candidates (stages 2 to 7)
CalcEvaluate ==
  /\ calc.pc = "loaded"
  /\ calc' = [calc EXCEPT !.pc = "evaluated",
                !.toWrite = MatchesToWrite(profiles[calc.org], calc.cands, notices, calc.existing)]
  /\ UNCHANGED <<profiles, notices, matches, alerts, buyers, logs, worker, feed, ops>>

\* a merge that overwrites the whole row with the new record
MechanicalUpdateWholeRow(row, m) == [m EXCEPT !.is_tracked = row.is_tracked]

\* the mechanical fields copied onto an existing row
MechanicalUpdate(row, m) ==
  [row EXCEPT !.score = m.score, !.score_semantic = m.score_semantic,
              !.score_domain = m.score_domain, !.score_geo = m.score_geo,
              !.score_theme = m.score_theme, !.feedback_status = m.feedback_status,
              !.risk_flags = m.risk_flags,
              !.recommendation_reasons = m.recommendation_reasons]

\* a merge loop that flushes the rows as it goes
CalcMergeAutoflush ==
  /\ calc.pc = "evaluated"
  /\ calc' = [calc EXCEPT !.pc = "merged",
                !.upd = Restrict(calc.toWrite, DOMAIN calc.toWrite \cap DOMAIN calc.existing),
                !.add = Restrict(calc.toWrite, DOMAIN calc.toWrite \ DOMAIN calc.existing)]
  /\ matches' = [k \in (DOMAIN matches) \cup {<<calc.org, n>> : n \in DOMAIN calc.toWrite} |->
                   IF k[1] = calc.org /\ k[2] \in DOMAIN calc.toWrite
                     THEN calc.toWrite[k[2]] ELSE matches[k]]
  /\ UNCHANGED <<profiles, notices, alerts, buyers, logs, worker, feed, ops>>

\* the merge loop: update the loaded rows, add the others to the session
CalcMerge ==
  /\ calc.pc = "evaluated"
  /\ calc' = [calc EXCEPT !.pc = "merged",
                !.upd = Restrict(calc.toWrite, DOMAIN calc.toWrite \cap DOMAIN calc.existing),
                !.add = Restrict(calc.toWrite, DOMAIN calc.toWrite \ DOMAIN calc.existing)]
  /\ UNCHANGED <<profiles, notices, matches, alerts, buyers, logs, worker, feed, ops>>

\* a clean-up that deletes every row outside the new set
StaleMatchesDeleteAll(existing, processed_ocids) ==
  {n \in DOMAIN existing : n \notin processed_ocids}

\* a clean-up that deletes nothing
StaleMatchesKeepAll(existing, processed_ocids) == {}

\* the rows the clean-up loop deletes
StaleMatches(existing, processed_ocids) ==
  {n \in DOMAIN existing : n \notin processed_ocids /\ existing[n].deep_verdict = NULL}

\* the clean-up loop
CalcDelete ==
  /\ calc.pc = "merged"
  /\ calc' = [calc EXCEPT !.pc = "cleaned",
                !.del = StaleMatches(calc.existing, DOMAIN calc.toWrite)]
  /\ UNCHANGED <<profiles, notices, matches, alerts, buyers, logs, worker, feed, ops>>

\* what the flush at commit leaves in notice_match
Flushed(table, o, upd, add, del) ==
  [k \in ((DOMAIN table) \cup {<<o, n>> : n \in DOMAIN add}) \ {<<o, n>> : n \in del} |->
     IF k[1] = o /\ k[2] \in DOMAIN upd /\ k \in DOMAIN table
       THEN MechanicalUpdate(table[k], upd[k[2]])
     ELSE IF k[1] = o /\ k[2] \in DOMAIN add THEN add[k[2]]
     ELSE table[k]]

\* self.db.commit()
CalcCommit ==
  /\ calc.pc = "cleaned"
  /\ matches' = Flushed(matches, calc.org, calc.upd, calc.add, calc.del)
  /\ calc' = [calc EXCEPT !.pc = "committed"]
  /\ UNCHANGED <<profiles, notices, alerts, buyers, logs, worker, feed, ops>>

\* the run raises or is cancelled before its commit: the session is dropped
CalcFail ==
  /\ calc.pc \in {"loaded", "evaluated", "merged", "cleaned"}
  /\ calc' = [calc EXCEPT !.pc = "failed"]
  /\ UNCHANGED <<profiles, notices, matches, alerts, buyers, logs, worker, feed, ops>>

\* the call returns to (or raises into) its caller
CalcReturn ==
  /\ calc.pc \in {"committed", "failed"}
  /\ calc' = IdleCalc
  /\ UNCHANGED <<profiles, notices, matches, alerts, buyers, logs, worker, feed, ops>>

\* ------------------------------------------------------ Tier-2 deep review
\* the LLM's JSON answer for one OCID
EntryPass == [present |-> TRUE, has_verdict |-> TRUE, verdict |-> "PASS", rationale |-> "r1"]
EntryFail == [present |-> TRUE, has_verdict |-> TRUE, verdict |-> "FAIL", rationale |-> "r2"]
EntryOther == [present |-> TRUE, has_verdict |-> TRUE, verdict |-> "MAYBE", rationale |-> "r1"]
EntryNullVerdict == [present |-> TRUE, has_verdict |-> TRUE, verdict |-> NULL, rationale |-> "r1"]
EntryNoVerdict == [present |-> TRUE, has_verdict |-> FALSE, verdict |-> NULL, rationale |-> NULL]
EntryMissing == [present |-> FALSE, has_verdict |-> FALSE, verdict |-> NULL, rationale |-> NULL]

\* the answers of batch_analyze_matches the model draws from
Responses ==
  { [n \in Ocids |-> EntryPass],
    [n \in Ocids |-> EntryFail],
    [n \in Ocids |-> IF n % 2 = 1 THEN EntryPass ELSE EntryFail],
    [n \in Ocids |-> IF n % 2 = 1 THEN EntryMissing ELSE EntryPass],
    [n \in Ocids |-> IF n % 2 = 1 THEN EntryOther ELSE EntryNullVerdict],
    [n \in Ocids |-> IF n % 2 = 1 THEN EntryNoVerdict ELSE EntryFail],
    [n \in Ocids |-> EntryMissing] }

\* the query of trigger_deep_review: score > 0, best first, at most ten
Eligible(o) == {n \in Ocids : <<o, n>> \in DOMAIN matches /\ matches[<<o, n>>].score > 0}

TopMatches(o) ==
  {S \in SUBSET Eligible(o) :
     /\ Cardinality(S) = Min(TopK, Cardinality(Eligible(o)))
     /\ \A a \in S, b \in Eligible(o) \ S : matches[<<o, a>>].score >= matches[<<o, b>>].score}

\* a review that also rewrites the verdict of the row
ReviewedWithStatus(row, res) ==
  [row EXCEPT !.deep_verdict = IF res.has_verdict THEN res.verdict ELSE "FAIL",
              !.deep_rationale = res.rationale,
              !.feedback_status = IF res.has_verdict /\ res.verdict = "PASS"
                                    THEN "GO" ELSE "NO-GO"]

\* res.get("verdict", "FAIL") and res.get("rationale")
Reviewed(row, res) ==
  [row EXCEPT !.deep_verdict = IF res.has_verdict THEN res.verdict ELSE "FAIL",
              !.deep_rationale = res.rationale]

\* one iteration of the loop over the charities
Tier2Review(o, top, results) ==
  /\ calc.pc = "idle"
  /\ worker.pc = "idle"
  /\ ops < MaxOps
  /\ top # {}
  /\ matches' = [k \in DOMAIN matches |->
                   IF k[1] = o /\ k[2] \in top /\ results[k[2]].present
                     THEN Reviewed(matches[k], results[k[2]])
                     ELSE matches[k]]
  /\ ops' = ops + 1
  /\ UNCHANGED <<profiles, notices, alerts, buyers, logs, calc, worker, feed>>

\* the same iteration, committed by another process while calculate_matches
\* of that charity is between loading its rows and its commit
Tier2ReviewDuringCalc(o, top, results) ==
  /\ calc.pc \in {"loaded", "evaluated", "merged", "cleaned"}
  /\ calc.org = o
  /\ worker.pc = "idle"
  /\ ops < MaxOps
  /\ top # {}
  /\ matches' = [k \in DOMAIN matches |->
                   IF k[1] = o /\ k[2] \in top /\ results[k[2]].present
                     THEN Reviewed(matches[k], results[k[2]])
                     ELSE matches[k]]
  /\ ops' = ops + 1
  /\ UNCHANGED <<profiles, notices, alerts, buyers, logs, calc, worker, feed>>

\* ------------------------------------------------- changes between runs
\* scripts/seed_precision_filters.py: UPDATE service_profile SET exclusion_keywords
SeedFilters(o) ==
  /\ calc.pc = "idle"
  /\ worker.pc = "idle"
  /\ ops < MaxOps
  /\ profiles[o].exclusion_keywords # SeedKeywords(o)
  /\ profiles' = [profiles EXCEPT ![o].exclusion_keywords = SeedKeywords(o)]
  /\ ops' = ops + 1
  /\ UNCHANGED <<notices, matches, alerts, buyers, logs, calc, worker, feed>>

\* the row toggle_tracking creates for a notice without a match: every column
\* but the key, is_tracked and feedback_status is NULL (flags and reasons
\* read back as empty)
ShellMatch ==
  [score |-> NullNum, score_semantic |-> NullNum, score_domain |-> NullNum,
   score_geo |-> NullNum, score_theme |-> NullNum, feedback_status |-> "REVIEW",
   risk_flags |-> [TUPE |-> FALSE, Safeguarding |-> FALSE, is_vcse |-> FALSE,
                   is_sme |-> FALSE, renewal_radar |-> FALSE],
   recommendation_reasons |-> <<>>, deep_verdict |-> NULL, deep_rationale |-> NULL,
   is_tracked |-> TRUE]

\* TrackingService.toggle_tracking(org_id, ocid)
ToggleTracking(o, n) ==
  /\ calc.pc = "idle"
  /\ worker.pc = "idle"
  /\ ops < MaxOps
  /\ n \in DOMAIN notices
  /\ matches' = IF <<o, n>> \in DOMAIN matches
                  THEN [matches EXCEPT ![<<o, n>>].is_tracked = ~@]
                  ELSE Put(matches, <<o, n>>, ShellMatch)
  /\ ops' = ops + 1
  /\ UNCHANGED <<profiles, notices, alerts, buyers, logs, calc, worker, feed>>

\* scripts/test_matching.py: the CPV list an existing profile is updated to
UpdatedCpvCodes == {<<7, 5, 2, 1, 1, 0>>, <<7, 9, 1, 0, 0, 0>>}

\* a profile's inferred CPV list is rewritten and committed by another process
UpdateProfile(o) ==
  /\ calc.pc = "idle"
  /\ ops < MaxOps
  /\ profiles[o].inferred_cpv_codes # UpdatedCpvCodes
  /\ profiles' = [profiles EXCEPT ![o].inferred_cpv_codes = UpdatedCpvCodes]
  /\ ops' = ops + 1
  /\ UNCHANGED <<notices, matches, alerts, buyers, logs, calc, worker, feed>>

\* ------------------------------------------------------------ ingestion
\* tender.title present but null: f"{notice.title}" renders it as "None"
NullTitle == <<"None">>
\* a release date datetime.fromisoformat rejects
BadDate == 0 - 2
\* a start date given on the command line of run_ingestion
ExplicitStart == 0 - 3

MeshCpv(n) == <<8, 5, 3, 1, 1, n>>
OtherCpv(n) == <<7, 5, 2, 1, 1, n>>

BaseRelease(n) ==
  [ocid |-> n, buyer |-> "b1", title |-> <<"care">>, description |-> <<"day", "support">>,
   amount |-> 100000, end_date |-> 10, tag |-> "contractNotice", cpv |-> {MeshCpv(n)},
   date |-> 5]

PlainRelease(n) ==
  [ocid |-> n, buyer |-> "b2", title |-> <<"advice">>, description |-> <<"housing">>,
   amount |-> 200, end_date |-> 10, tag |-> "contractAward", cpv |-> {OtherCpv(n)},
   date |-> 5]

\* the notices the OCDS source publishes
ReleaseOcids == {1, 2}

\* the releases the OCDS source can yield
Releases ==
  UNION {IF n % 2 = 1
           THEN {BaseRelease(n),
                 [BaseRelease(n) EXCEPT !.amount = 115000],
                 [BaseRelease(n) EXCEPT !.amount = 115000, !.title = NullTitle],
                 [BaseRelease(n) EXCEPT !.amount = NullNum],
                 [BaseRelease(n) EXCEPT !.date = BadDate]}
           ELSE {PlainRelease(n),
                 [PlainRelease(n) EXCEPT !.cpv = {}],
                 [PlainRelease(n) EXCEPT !.amount = 220, !.end_date = 12,
                                         !.tag = "contractNotice"]}
         : n \in ReleaseOcids}

NoRelease == [BaseRelease(0) EXCEPT !.buyer = NULL]

\* the pages of one fetch_releases call, flattened
Feeds == UNION {[1..k -> Releases] : k \in 0..MaxReleases}

\* the feeds whose releases all normalise and upsert without an error
WellFormedFeeds ==
  {f \in Feeds : \A i \in DOMAIN f : /\ f[i].title # NullTitle
                                      /\ f[i].date # BadDate
                                      /\ f[i].amount # NullNum}

\* the feeds whose releases all carry a CPV classification
ClassifiedFeeds == {f \in Feeds : \A i \in DOMAIN f : f[i].cpv # {}}

\* Normalizer.normalize_buyer: the slug
BuyerSlug(rel) == rel.buyer

\* Normalizer.map_release_to_notice
MapReleaseToNotice(rel) ==
  [title |-> rel.title, description |-> rel.description,
   value_amount |-> rel.amount, deadline_date |-> rel.end_date, notice_type |-> rel.tag,
   cpv_codes |-> rel.cpv, inferred_ukcat_codes |-> {},
   embedding |-> NULL, provider_summary_embedding |-> NULL,
   buyer |-> BuyerSlug(rel), is_archived |-> FALSE, category |-> "services",
   suitability |-> NoSuit, lots |-> <<>>, regions |-> {"London"}, buyer_region |-> NULL]

NoNotice == MapReleaseToNotice(NoRelease)

\* IngestionWorker._get_mesh: the CPV prefixes of all profiles
BuildMesh == UNION {CpvPrefixes(profiles[o].inferred_cpv_codes) : o \in DOMAIN profiles}

IsMeshMatchNoFallback(cpv_prefixes, notice) ==
  CpvPrefixes(notice.cpv_codes) \cap cpv_prefixes # {}

\* IngestionWorker._is_mesh_match
IsMeshMatch(cpv_prefixes, notice) ==
  \/ notice.cpv_codes = {}
  \/ CpvPrefixes(notice.cpv_codes) \cap cpv_prefixes # {}

\* UKCATTagger.tag_text on title + description
TagText(notice) ==
  IF "housing" \in LowerWords(notice.title) \cup LowerWords(notice.description)
    THEN {<<"HO", 101>>} ELSE {}

\* EmbeddingService.get_embedding(description)
EmbedOf(description) == IF "housing" \in Range(description) THEN "e2" ELSE "e1"

\* EnrichmentService.enrich_notice, up to its add and commit
EnrichedNotice(notice, provider_up) ==
  [notice EXCEPT
     !.embedding = IF notice.embedding = NULL /\ notice.description # <<>> /\ provider_up
                     THEN EmbedOf(notice.description) ELSE @,
     !.inferred_ukcat_codes = IF notice.inferred_ukcat_codes = {} THEN TagText(notice) ELSE @]

\* needs_update
NeedsUpdate(notice, provider_up) == EnrichedNotice(notice, provider_up) # notice

\* abs(new - old): the numerator of diff_pct
AbsDiff(new_value, old_value) ==
  IF new_value >= old_value THEN new_value - old_value ELSE old_value - new_value

CheckForChangesAtLeast(existing, new) ==
  (IF new.deadline_date # NullNum /\ existing.deadline_date # NullNum
        /\ new.deadline_date # existing.deadline_date
     THEN {"deadline"} ELSE {})
  \cup
  (IF new.value_amount # NullNum /\ existing.value_amount # NullNum
        /\ existing.value_amount > 0
        /\ 10 * AbsDiff(new.value_amount, existing.value_amount) >= existing.value_amount
     THEN {"value"} ELSE {})
  \cup
  (IF new.notice_type # NULL /\ existing.notice_type # new.notice_type
     THEN {"type"} ELSE {})

\* AlertService.check_for_changes: the keys of the change map. diff_pct is
\* abs(new - old) / old, which is never above 0.10 for a negative old value
CheckForChanges(existing, new) ==
  (IF new.deadline_date # NullNum /\ existing.deadline_date # NullNum
        /\ new.deadline_date # existing.deadline_date
     THEN {"deadline"} ELSE {})
  \cup
  (IF new.value_amount # NullNum /\ existing.value_amount # NullNum
        /\ existing.value_amount # 0
        /\ existing.value_amount > 0
        /\ 10 * AbsDiff(new.value_amount, existing.value_amount) > existing.value_amount
     THEN {"value"} ELSE {})
  \cup
  (IF new.notice_type # NULL /\ existing.notice_type # new.notice_type
     THEN {"type"} ELSE {})

\* abs(new_value - float(old)) with new_value a Decimal read back from the
\* store raises TypeError; it is evaluated when both values are present and
\* the old one is not 0
ValueRaises(existing, new, read_back) ==
  /\ read_back
  /\ new.value_amount # NullNum
  /\ existing.value_amount # NullNum
  /\ existing.value_amount # 0

\* what a call of check_for_changes gives its caller
CheckOutcome(existing, new, read_back) ==
  IF ValueRaises(existing, new, read_back)
    THEN [raised |-> TRUE, changes |-> {}]
    ELSE [raised |-> FALSE, changes |-> CheckForChanges(existing, new)]

\* the messages of process_change, in the order of the change map
ChangeKeys == <<"deadline", "value", "type">>
AlertText(k) ==
  CASE k = "deadline" -> "ALERT: Deadline changed"
    [] k = "value" -> "ALERT: Value changed"
    [] OTHER -> "ALERT: Notice type changed"
AlertMessages(changes) ==
  LET pick(k) == IF k \in changes THEN <<AlertText(k)>> ELSE <<>>
  IN pick(ChangeKeys[1]) \o pick(ChangeKeys[2]) \o pick(ChangeKeys[3])

ChangedMatchReasonsKept(row, changes) ==
  [row EXCEPT
     !.feedback_status = IF "value" \in changes /\ @ = "GO" THEN "REVIEW" ELSE @]

\* the row of one match after process_change
ChangedMatch(row, changes) ==
  [row EXCEPT
     !.recommendation_reasons = @ \o AlertMessages(changes),
     !.feedback_status = IF "value" \in changes /\ @ = "GO" THEN "REVIEW" ELSE @]

\* notice_match after process_change(ocid, changes)
MatchesAfterChange(table, ocid, changes) ==
  [k \in DOMAIN table |-> IF k[2] = ocid THEN ChangedMatch(table[k], changes) ELSE table[k]]

\* the alerts process_change creates: one per match and change key
RECURSIVE NewAlerts(_, _, _)
NewAlerts(orgs, ocid, changes) ==
  IF orgs = {} THEN <<>>
  ELSE LET o == CHOOSE x \in orgs : TRUE
           msgs == AlertMessages(changes)
       IN [i \in 1..Len(msgs) |->
             [org_id |-> o, notice_id |-> ocid, alert_type |-> "MATERIAL_CHANGE",
              message |-> msgs[i]]]
          \o NewAlerts(orgs \ {o}, ocid, changes)

MatchedOrgs(table, ocid) == {o \in Orgs : <<o, ocid>> \in DOMAIN table}

\* INSERT ... ON CONFLICT (ocid) DO UPDATE SET the mutable columns
UpsertedNotice(table, ocid, notice) ==
  IF ocid \in DOMAIN table
    THEN [table EXCEPT ![ocid] =
            [@ EXCEPT !.title = notice.title, !.description = notice.description,
                      !.embedding = notice.embedding, !.value_amount = notice.value_amount,
                      !.deadline_date = notice.deadline_date,
                      !.notice_type = notice.notice_type,
                      !.inferred_ukcat_codes = notice.inferred_ukcat_codes]]
    ELSE Put(table, ocid, notice)

\* the committed tables a release can write
Committed == [notices |-> notices, matches |-> matches, alerts |-> alerts, buyers |-> buyers]

NeverSeen == [rel |-> NoRelease, ok |-> FALSE, stored |-> FALSE, row |-> NoNotice]

IdleWorker ==
  [pc |-> "idle", log |-> 0, count |-> 0, failed |-> 0, done |-> <<>>, last |-> "none",
   fatal |-> FALSE, rel |-> NoRelease, notice |-> NoNotice, persistent |-> FALSE,
   mesh_built |-> FALSE, mesh |-> {}, tx_buyer |-> NULL,
   snap |-> [notices |-> EmptyMap, matches |-> EmptyMap, alerts |-> <<>>, buyers |-> {}],
   first |-> NeverSeen, seen |-> [n \in Ocids |-> NeverSeen], yielded |-> 0,
   start_date |-> NullNum, explicit |-> FALSE, now |-> 1, stale_lookup |-> FALSE,
   enrich_called |-> FALSE, changes |-> {}]

\* the change maps process_change is called with, by their keys
ChangeSets == {{"value", "title"}, {"deadline", "type"}, {"deadline", "value", "type"}}

\* AlertService.process_change(ocid, changes) called on its own and committed
ProcessChange(ocid, changes) ==
  /\ worker.pc = "idle"
  /\ calc.pc = "idle"
  /\ ops < MaxOps
  /\ matches' = MatchesAfterChange(matches, ocid, changes)
  /\ alerts' = alerts \o NewAlerts(MatchedOrgs(matches, ocid), ocid, changes)
  /\ worker' = [worker EXCEPT !.pc = "changed", !.snap = Committed, !.changes = changes,
                              !.rel = [NoRelease EXCEPT !.ocid = ocid]]
  /\ ops' = ops + 1
  /\ UNCHANGED <<profiles, notices, buyers, logs, calc, feed>>

\* process_change returns
ProcessChangeReturn ==
  /\ worker.pc = "changed"
  /\ worker' = IdleWorker
  /\ UNCHANGED <<profiles, notices, matches, alerts, buyers, logs, calc, feed, ops>>

\* the row a release leaves behind, remembered per ocid
Finish(w, ok, table) ==
  LET ocid == w.rel.ocid
      stored == ocid \in DOMAIN table
  IN [w EXCEPT !.seen[ocid] = [rel |-> w.rel, ok |-> ok, stored |-> stored,
                                row |-> IF stored THEN table[ocid] ELSE NoNotice]]

ReleaseFailedCounted(w) ==
  [w EXCEPT !.pc = "fetch", !.failed = @ + 1, !.count = @ + 1, !.last = "failed",
            !.tx_buyer = NULL, !.persistent = FALSE]

\* except Exception as inner_e: log, rollback, continue
ReleaseFailed(w) ==
  [w EXCEPT !.pc = "fetch", !.failed = @ + 1, !.last = "failed",
            !.tx_buyer = NULL, !.persistent = FALSE]

\* the start dates a caller of run() passes: none, or an explicit one
StartDates == {NullNum, ExplicitStart}

FinishedLogs(table) == {i \in DOMAIN table : table[i].status # "RUNNING"}

\* the rows the watermark query filters for
SuccessLogs(table) == {i \in DOMAIN table : table[i].status = "SUCCESS"}

\* .order_by(completed_at.desc()).first()
LastRun(table) ==
  CHOOSE i \in SuccessLogs(table) :
    \A j \in SuccessLogs(table) : table[j].completed_at <= table[i].completed_at

\* the start date run() fetches from
StartDate(table, start_date) ==
  IF start_date # NullNum THEN start_date
  ELSE IF SuccessLogs(table) # {} THEN table[LastRun(table)].completed_at
  ELSE Epoch

\* run(): a fresh worker writes the RUNNING log row, resolves the start date
\* and opens the feed
RunStart(releases, start_date) ==
  /\ worker.pc = "idle"
  /\ calc.pc = "idle"
  /\ Len(logs) < MaxRuns
  /\ worker.yielded + Len(releases) <= MaxReleases
  /\ logs' = Append(logs, [status |-> "RUNNING", items_processed |-> 0,
                           error_details |-> NULL, completed_at |-> NullNum])
  /\ feed' = releases
  /\ worker' = [IdleWorker EXCEPT !.pc = "fetch", !.log = Len(logs) + 1,
                                  !.seen = worker.seen,
                                  !.yielded = worker.yielded + Len(releases),
                                  !.now = worker.now,
                                  !.explicit = start_date # NullNum,
                                  !.start_date = StartDate(logs', start_date)]
  /\ UNCHANGED <<profiles, notices, matches, alerts, buyers, calc, ops>>

\* the generator yields a release: buyer upsert (pending) and normalisation
FetchRelease ==
  /\ worker.pc = "fetch"
  /\ feed # <<>>
  /\ feed' = Tail(feed)
  /\ LET rel == Head(feed)
         w == [worker EXCEPT !.rel = rel, !.snap = Committed, !.persistent = FALSE,
                             !.first = worker.seen[rel.ocid], !.enrich_called = FALSE,
                             !.changes = {}]
     IN worker' = IF rel.date = BadDate
                    THEN Finish(ReleaseFailed(w), FALSE, notices)
                    ELSE [w EXCEPT !.pc = "enrich", !.tx_buyer = BuyerSlug(rel),
                                   !.notice = MapReleaseToNotice(rel)]
  /\ UNCHANGED <<profiles, notices, matches, alerts, buyers, logs, calc, ops>>

\* the mesh check and enrich_notice, whose add and commit insert the notice
LazyEnrichment(provider_up) ==
  /\ worker.pc = "enrich"
  /\ LET ocid == worker.rel.ocid
         mesh == IF worker.mesh_built THEN worker.mesh ELSE BuildMesh
         w == [worker EXCEPT !.mesh_built = TRUE, !.mesh = mesh,
                             !.stale_lookup = (mesh # BuildMesh),
                             !.enrich_called = IsMeshMatch(mesh, worker.notice)]
     IN IF IsMeshMatch(mesh, worker.notice) /\ NeedsUpdate(worker.notice, provider_up)
          THEN IF ocid \in DOMAIN notices \/ worker.notice.title = NullTitle
                 THEN /\ worker' = Finish(ReleaseFailed(w), FALSE, notices)
                      /\ UNCHANGED <<notices, buyers>>
                 ELSE /\ notices' = Put(notices, ocid,
                                        EnrichedNotice(worker.notice, provider_up))
                      /\ buyers' = buyers \cup {worker.tx_buyer}
                      /\ worker' = [w EXCEPT !.pc = "diff", !.persistent = TRUE,
                                             !.tx_buyer = NULL,
                                             !.notice = EnrichedNotice(@, provider_up)]
          ELSE /\ worker' = [w EXCEPT !.pc = "diff"]
               /\ UNCHANGED <<notices, buyers>>
  /\ UNCHANGED <<profiles, matches, alerts, logs, calc, feed, ops>>

\* the existing_notice query, check_for_changes and process_change with its commit
DetectChanges ==
  /\ worker.pc = "diff"
  /\ LET ocid == worker.rel.ocid
         stored == ocid \in DOMAIN notices
         changes == IF stored THEN CheckForChanges(notices[ocid], worker.notice) ELSE {}
     IN IF stored /\ CheckOutcome(notices[ocid], worker.notice, worker.persistent).raised
          THEN \* Decimal - float
               /\ worker' = Finish(ReleaseFailed(worker), FALSE, notices)
               /\ UNCHANGED <<matches, alerts, buyers>>
          ELSE IF changes # {}
                 THEN /\ matches' = MatchesAfterChange(matches, ocid, changes)
                      /\ alerts' = alerts \o NewAlerts(MatchedOrgs(matches, ocid), ocid, changes)
                      /\ buyers' = buyers \cup
                                     (IF worker.tx_buyer = NULL THEN {} ELSE {worker.tx_buyer})
                      /\ worker' = [worker EXCEPT !.pc = "upsert", !.tx_buyer = NULL,
                                                  !.changes = changes]
                 ELSE /\ worker' = [worker EXCEPT !.pc = "upsert"]
                      /\ UNCHANGED <<matches, alerts, buyers>>
  /\ UNCHANGED <<profiles, notices, logs, calc, feed, ops>>

\* the notice upsert, the commit of the release, count += 1
UpsertNotice ==
  /\ worker.pc = "upsert"
  /\ LET ocid == worker.rel.ocid
     IN IF worker.notice.title = NullTitle
          THEN /\ worker' = Finish(ReleaseFailed(worker), FALSE, notices)
               /\ UNCHANGED <<notices, buyers>>
          ELSE /\ notices' = UpsertedNotice(notices, ocid, worker.notice)
               /\ buyers' = buyers \cup
                              (IF worker.tx_buyer = NULL THEN {} ELSE {worker.tx_buyer})
               /\ worker' = Finish([worker EXCEPT !.pc = "fetch", !.count = @ + 1,
                                                  !.done = Append(@, ocid), !.last = "ok",
                                                  !.tx_buyer = NULL, !.persistent = FALSE],
                                   TRUE, notices')
  /\ UNCHANGED <<profiles, matches, alerts, logs, calc, feed, ops>>

\* the feed is exhausted: the log row becomes SUCCESS
RunSucceeds ==
  /\ worker.pc = "fetch"
  /\ feed = <<>>
  /\ logs' = [logs EXCEPT ![worker.log] = [@ EXCEPT !.status = "SUCCESS",
                                                    !.items_processed = worker.count,
                                                    !.completed_at = worker.now]]
  /\ worker' = [worker EXCEPT !.pc = "done", !.now = @ + 1]
  /\ UNCHANGED <<profiles, notices, matches, alerts, buyers, calc, feed, ops>>

FetchFailsLogUntouched ==
  /\ worker.pc = "fetch"
  /\ feed' = <<>>
  /\ worker' = [worker EXCEPT !.pc = "done", !.fatal = TRUE]
  /\ UNCHANGED <<profiles, notices, matches, alerts, buyers, logs, calc, ops>>

\* fetch_releases raises after its retries: the outer handler marks the run FAILED
FetchFails ==
  /\ worker.pc = "fetch"
  /\ logs' = [logs EXCEPT ![worker.log] = [@ EXCEPT !.status = "FAILED",
                                                    !.error_details = "fetch failed"]]
  /\ feed' = <<>>
  /\ worker' = [worker EXCEPT !.pc = "done", !.fatal = TRUE]
  /\ UNCHANGED <<profiles, notices, matches, alerts, buyers, calc, ops>>

\* finally: db.close(); the worker object is dropped
WorkerReturn ==
  /\ worker.pc = "done"
  /\ worker' = [IdleWorker EXCEPT !.seen = worker.seen, !.yielded = worker.yielded,
                                  !.now = worker.now]
  /\ UNCHANGED <<profiles, notices, matches, alerts, buyers, logs, calc, feed, ops>>

\* ------------------------------------------------- specification: matching
NumKinds == Len(NoticeKinds)

InitMatch ==
  /\ profiles = InitProfiles
  /\ \E r \in 0..(NumKinds - 1) :
       notices = [n \in Ocids |-> NoticeKinds[((n + r) % NumKinds) + 1]]
  /\ matches = EmptyMap
  /\ alerts = <<>>
  /\ buyers = {"b1"}
  /\ logs = <<>>
  /\ calc = IdleCalc
  /\ worker = IdleWorker
  /\ feed = <<>>
  /\ ops = 0

NextMatch ==
  \/ \E o \in Orgs : CalcStart(o)
  \/ CalcEvaluate
  \/ CalcMerge
  \/ CalcDelete
  \/ CalcCommit
  \/ CalcFail
  \/ CalcReturn
  \/ \E o \in Orgs : \E top \in TopMatches(o) : \E results \in Responses :
       Tier2Review(o, top, results)
  \/ \E o \in Orgs : SeedFilters(o)

SpecMatch == InitMatch /\ [][NextMatch]_vars

\* -------------------------------------------- specification: renewal radar
\* round(days_since / 365.25, 1), in tenths of a year
YearsSince(days_since) == (80 * days_since + 1461) \div 2922

\* the first cycle of [1, 2, 3, 5] within 0.75 years of years_since, else 3
EstimateCycle(years_since) ==
  IF AbsDiff(years_since, 10) * 2 < 15 THEN 1
  ELSE IF AbsDiff(years_since, 20) * 2 < 15 THEN 2
  ELSE IF AbsDiff(years_since, 30) * 2 < 15 THEN 3
  ELSE IF AbsDiff(years_since, 50) * 2 < 15 THEN 5
  ELSE 3

\* the ages, in days, of the publication dates the history rows carry
\* (NullNum: a row without a publication date)
DatedAges(history) == {history[i] : i \in DOMAIN history} \ {NullNum}

\* the smallest age: max(dates) is the most recent date
MostRecentAge(ages) == CHOOSE a \in ages : \A b \in ages : a <= b

\* RenewalEnrichmentService.enrich: buyer_seen_before and estimated_cycle_years
RadarEnrich(buyer, history) ==
  IF buyer = NULL \/ history = <<>>
    THEN [buyer_seen_before |-> FALSE, estimated_cycle_years |-> NullNum]
  ELSE IF DatedAges(history) = {}
    THEN [buyer_seen_before |-> TRUE, estimated_cycle_years |-> NullNum]
  ELSE [buyer_seen_before |-> TRUE,
        estimated_cycle_years |->
          EstimateCycle(YearsSince(MostRecentAge(DatedAges(history))))]

\* no history, a row without a date, and rows up to 2300 days old, alone or
\* with an older row
RadarHistories ==
  {<<>>, <<NullNum>>} \cup {<<d>> : d \in 0..2300} \cup {<<d, 3000>> : d \in 0..2300}

InitRadar ==
  /\ profiles = InitProfiles
  /\ notices = EmptyMap
  /\ matches = EmptyMap
  /\ alerts = <<>>
  /\ buyers = {}
  /\ logs = <<>>
  /\ calc = IdleCalc
  /\ feed = <<>>
  /\ ops = 0
  /\ \E buyer \in {NULL, "b1"} : \E history \in RadarHistories :
       worker = [pc |-> "call", buyer |-> buyer, history |-> history,
                 outcome |-> RadarEnrich(NULL, <<>>)]

\* RenewalEnrichmentService.enrich(notice)
RadarCall ==
  /\ worker.pc = "call"
  /\ worker' = [worker EXCEPT !.pc = "returned",
                              !.outcome = RadarEnrich(worker.buyer, worker.history)]
  /\ UNCHANGED <<profiles, notices, matches, alerts, buyers, logs, calc, feed, ops>>

NextRadar == RadarCall

SpecRadar == InitRadar /\ [][NextRadar]_vars

\* ------------------------------- specification: recalculation after alerts
NextDemotion ==
  \/ \E o \in Orgs : CalcStart(o)
  \/ CalcEvaluate
  \/ CalcMerge
  \/ CalcDelete
  \/ CalcCommit
  \/ CalcReturn
  \/ \E ocid \in Ocids : \E changes \in ChangeSets : ProcessChange(ocid, changes)
  \/ ProcessChangeReturn

SpecDemotion == InitMatch /\ [][NextDemotion]_vars

\* ------------------------------------- specification: concurrent review
NextInterleave ==
  \/ \E o \in Orgs : CalcStart(o)
  \/ CalcEvaluate
  \/ CalcMerge
  \/ CalcDelete
  \/ CalcCommit
  \/ CalcReturn
  \/ \E o \in Orgs : SeedFilters(o)
  \/ \E o \in Orgs : \E top \in TopMatches(o) : \E results \in Responses :
       Tier2ReviewDuringCalc(o, top, results)

SpecInterleave == InitMatch /\ [][NextInterleave]_vars

\* ---------------------------------------------------- opportunity feed
\* the notices org o has a row for
RowsOf(o) == {n \in Ocids : <<o, n>> \in DOMAIN matches}

\* the sort key of ORDER BY score DESC: PostgreSQL puts NULL first
ScoreRank(row) == IF row.score = NullNum THEN 10001 ELSE row.score

\* an ordering by score alone
FeedBeforeByScore(a, b) == ScoreRank(a) > ScoreRank(b)

\* ORDER BY is_tracked DESC, score DESC puts row a strictly before row b
FeedBefore(a, b) ==
  \/ a.is_tracked /\ ~b.is_tracked
  \/ a.is_tracked = b.is_tracked /\ ScoreRank(a) > ScoreRank(b)

\* the answers the query may give: the first `limit` rows of org in the
\* order, rows that tie in any order
FeedAnswers(o, limit) ==
  {rows \in UNION {[1..k -> RowsOf(o)] : k \in {Min(limit, Cardinality(RowsOf(o)))}} :
     /\ \A i, j \in DOMAIN rows : i < j =>
          /\ rows[i] # rows[j]
          /\ ~FeedBefore(matches[<<o, rows[j]>>], matches[<<o, rows[i]>>])
     /\ \A m \in RowsOf(o) \ Range(rows) : \A i \in DOMAIN rows :
          ~FeedBefore(matches[<<o, m>>], matches[<<o, rows[i]>>])}

\* FeedService.get_feed(org_id, limit); in this specification `feed` holds
\* the notice ids of the returned rows
GetFeed(o, limit) ==
  /\ calc.pc = "idle"
  /\ worker.pc = "idle"
  /\ \E rows \in FeedAnswers(o, limit) : feed' = rows
  /\ worker' = [pc |-> "fed", org |-> o, limit |-> limit]
  /\ UNCHANGED <<profiles, notices, matches, alerts, buyers, logs, calc, ops>>

\* the caller drops the answer
FeedReturn ==
  /\ worker.pc = "fed"
  /\ worker' = IdleWorker
  /\ feed' = <<>>
  /\ UNCHANGED <<profiles, notices, matches, alerts, buyers, logs, calc, ops>>

NextFeed ==
  \/ \E o \in Orgs : CalcStart(o)
  \/ CalcEvaluate
  \/ CalcMerge
  \/ CalcDelete
  \/ CalcCommit
  \/ CalcReturn
  \/ \E o \in Orgs : \E n \in Ocids : ToggleTracking(o, n)
  \/ \E o \in Orgs : \E limit \in {0, 1, 20} : GetFeed(o, limit)
  \/ FeedReturn

SpecFeed == InitMatch /\ [][NextFeed]_vars

\* ------------------------------------------------- specification: tracking
NextTrack ==
  \/ \E o \in Orgs : CalcStart(o)
  \/ CalcEvaluate
  \/ CalcMerge
  \/ CalcDelete
  \/ CalcCommit
  \/ CalcReturn
  \/ \E o \in Orgs : \E top \in TopMatches(o) : \E results \in Responses :
       Tier2Review(o, top, results)
  \/ \E o \in Orgs : \E n \in Ocids : ToggleTracking(o, n)

SpecTrack == InitMatch /\ [][NextTrack]_vars

\* ---------------------------------------------- specification: hard gates
NoLot == [amountGross |-> NullNum, amount |-> NullNum, suitability |-> NoSuit]

\* stored notices around the thresholds of the value, geo and CPV gates
GateKinds ==
  << [BaseNotice EXCEPT !.value_amount = 100000],
     [BaseNotice EXCEPT !.value_amount = 100001],
     [BaseNotice EXCEPT !.value_amount = 2000000,
                        !.lots = <<[NoLot EXCEPT !.amount = 90000]>>],
     [BaseNotice EXCEPT !.value_amount = 2000000,
                        !.lots = <<[NoLot EXCEPT !.amountGross = 500000, !.amount = 90000]>>],
     [BaseNotice EXCEPT !.value_amount = 2000000,
                        !.lots = <<[NoLot EXCEPT !.amount = 100001],
                                   [NoLot EXCEPT !.amountGross = 100000]>>],
     [BaseNotice EXCEPT !.regions = {}],
     [BaseNotice EXCEPT !.regions = {}, !.buyer_region = "Leeds"],
     [BaseNotice EXCEPT !.regions = {"Leeds", "Wales"}, !.cpv_codes = {}],
     [BaseNotice EXCEPT !.regions = {"london"}, !.cpv_codes = {<<7, 5, 2, 1, 1, 0>>}],
     [BaseNotice EXCEPT !.embedding = "e3"],
     [BaseNotice EXCEPT !.embedding = "e4"],
     [BaseNotice EXCEPT !.title = <<"care", "TUPE">>] >>

\* the profiles of the two organisations: local and national; national by
\* region name only and by income only; income at the national threshold
\* and no income
GateProfiles ==
  { <<LocalProfile, NationalProfile>>,
    <<[LocalProfile EXCEPT !.regions = {"United Kingdom"}],
      [NationalProfile EXCEPT !.regions = {"Leeds"}]>>,
    <<[LocalProfile EXCEPT !.income = IncomeNationalThreshold, !.regions = {"leeds"}],
      [NationalProfile EXCEPT !.income = 0, !.regions = {"Wales"},
                              !.inferred_cpv_codes = {<<7, 5, 2, 1, 1, 1>>}]>> }

\* a revision of notice 1 that lifts its value above 40% of every income
RevisedRelease == [PlainRelease(1) EXCEPT !.amount = 3000000]

InitGates ==
  /\ \E pair \in GateProfiles : profiles = [o \in Orgs |-> IF o = "P1" THEN pair[1] ELSE pair[2]]
  /\ \E k \in DOMAIN GateKinds : notices = [n \in {1} |-> GateKinds[k]]
  /\ matches = EmptyMap
  /\ alerts = <<>>
  /\ buyers = {"b1"}
  /\ logs = <<>>
  /\ calc = IdleCalc
  /\ worker = IdleWorker
  /\ feed = <<>>
  /\ ops = 0

NextGates ==
  \/ \E o \in Orgs : CalcStart(o)
  \/ CalcEvaluate
  \/ CalcMerge
  \/ CalcDelete
  \/ CalcCommit
  \/ CalcReturn
  \/ \E o \in Orgs : \E top \in TopMatches(o) : \E results \in Responses :
       Tier2Review(o, top, results)
  \/ RunStart(<<RevisedRelease>>, NullNum)
  \/ FetchRelease
  \/ \E provider_up \in BOOLEAN : LazyEnrichment(provider_up)
  \/ DetectChanges
  \/ UpsertNotice
  \/ RunSucceeds
  \/ WorkerReturn

SpecGates == InitGates /\ [][NextGates]_vars

\* ------------------------------------------------ specification: ingestion
InitIngest ==
  /\ profiles = InitProfiles
  /\ notices = EmptyMap
  /\ matches = EmptyMap
  /\ alerts = <<>>
  /\ buyers = {}
  /\ logs = <<>>
  /\ calc = IdleCalc
  /\ worker = IdleWorker
  /\ feed = <<>>
  /\ ops = 0

NextIngest ==
  \/ \E releases \in ClassifiedFeeds : \E start_date \in StartDates :
       RunStart(releases, start_date)
  \/ FetchRelease
  \/ \E provider_up \in BOOLEAN : LazyEnrichment(provider_up)
  \/ DetectChanges
  \/ UpsertNotice
  \/ RunSucceeds
  \/ FetchFails
  \/ WorkerReturn
  \/ CalcStart("P1")
  \/ CalcEvaluate
  \/ CalcMerge
  \/ CalcDelete
  \/ CalcCommit
  \/ CalcReturn

SpecIngest == InitIngest /\ [][NextIngest]_vars

\* ------------------------------------------ specification: change detector
DetectorDeadlines == {NullNum, 10, 12}
NegativeValue == 0 - 200
DetectorOldValues == {NullNum, NegativeValue, 0, 200, 100000}
DetectorNewValues == {NullNum, 0, 180, 179, 200, 220, 221, 100000, 90000, 89999, 110000,
                      110001, 115000}
DetectorTypes == {NULL, "contractNotice", "contractAward"}
DetectorOld == [deadline_date : DetectorDeadlines, value_amount : DetectorOldValues,
                notice_type : DetectorTypes]
DetectorNew == [deadline_date : DetectorDeadlines, value_amount : DetectorNewValues,
                notice_type : DetectorTypes]
NoOutcome == [raised |-> FALSE, changes |-> {"none"}]

\* a stored notice and the new data of one check_for_changes call; the new
\* data are read from a release, or read back from the stored notice itself
InitDetector ==
  /\ profiles = InitProfiles
  /\ notices = EmptyMap
  /\ matches = EmptyMap
  /\ alerts = <<>>
  /\ buyers = {}
  /\ logs = <<>>
  /\ calc = IdleCalc
  /\ feed = <<>>
  /\ ops = 0
  /\ \E existing \in DetectorOld : \E new \in DetectorNew : \E read_back \in BOOLEAN :
       /\ read_back => new = existing
       /\ worker = [pc |-> "call", existing |-> existing, new |-> new,
                    read_back |-> read_back, outcome |-> NoOutcome]

\* AlertService.check_for_changes(existing_notice, new_data)
CheckCall ==
  /\ worker.pc = "call"
  /\ worker' = [worker EXCEPT !.pc = "returned",
                              !.outcome = CheckOutcome(worker.existing, worker.new,
                                                       worker.read_back)]
  /\ UNCHANGED <<profiles, notices, matches, alerts, buyers, logs, calc, feed, ops>>

NextDetector == CheckCall

SpecDetector == InitDetector /\ [][NextDetector]_vars

\* ------------------------------------------- specification: change alerts
NextAlerts ==
  \/ \E o \in Orgs : ops = 0 /\ CalcStart(o)
  \/ CalcEvaluate
  \/ CalcMerge
  \/ CalcDelete
  \/ CalcCommit
  \/ CalcReturn
  \/ \E ocid \in Ocids : \E changes \in ChangeSets : ProcessChange(ocid, changes)
  \/ ProcessChangeReturn

SpecAlerts == InitMatch /\ [][NextAlerts]_vars

\* ----------------------------------- specification: ingestion and profile updates
NextMesh ==
  \/ \E releases \in WellFormedFeeds : RunStart(releases, NullNum)
  \/ FetchRelease
  \/ \E provider_up \in BOOLEAN : LazyEnrichment(provider_up)
  \/ DetectChanges
  \/ UpsertNotice
  \/ RunSucceeds
  \/ FetchFails
  \/ WorkerReturn
  \/ \E o \in Orgs : worker.pc # "idle" /\ UpdateProfile(o)

SpecMesh == InitIngest /\ [][NextMesh]_vars

\* ------------------------------------------------------------ properties

\* C1: every row of P that had a non-null deep_verdict when calculate_matches(P)
\* started still exists when the run has committed, whether or not its notice
\* passed the funnel in this run.
C1_Preservation ==
  calc.pc = "committed" =>
    \A n \in DOMAIN calc.existing :
      calc.existing[n].deep_verdict # NULL => n \in RowsOf(calc.org)

\* a committed run that kept a reviewed row whose notice did not pass the funnel
C1_Witness ==
  /\ calc.pc = "committed"
  /\ \E n \in DOMAIN calc.existing :
       /\ calc.existing[n].deep_verdict # NULL
       /\ n \notin DOMAIN calc.toWrite
       /\ n \in RowsOf(calc.org)

\* C2: a run never writes deep_verdict or deep_rationale: a row that exists
\* before and after the run has the same pair before and after.
C2_DeepFieldsUntouched ==
  calc.pc = "committed" =>
    \A n \in DOMAIN calc.existing \cap RowsOf(calc.org) :
      /\ matches[<<calc.org, n>>].deep_verdict = calc.existing[n].deep_verdict
      /\ matches[<<calc.org, n>>].deep_rationale = calc.existing[n].deep_rationale

\* a committed run that refreshed the mechanical fields of a reviewed row
C2_Witness ==
  /\ calc.pc = "committed"
  /\ \E n \in DOMAIN calc.upd :
       /\ calc.existing[n].deep_verdict # NULL
       /\ calc.existing[n].deep_rationale # NULL
       /\ matches[<<calc.org, n>>].recommendation_reasons # calc.existing[n].recommendation_reasons

\* C3: after a run every row of P with deep_verdict PASS has verdict GO and
\* every row with deep_verdict FAIL has verdict NO-GO, preserved rows included.
C3_VerdictFollowsTier2 ==
  calc.pc = "committed" =>
    \A n \in RowsOf(calc.org) :
      /\ matches[<<calc.org, n>>].deep_verdict = "PASS"
           => matches[<<calc.org, n>>].feedback_status = "GO"
      /\ matches[<<calc.org, n>>].deep_verdict = "FAIL"
           => matches[<<calc.org, n>>].feedback_status = "NO-GO"

\* C4: a run that fails or is cancelled before its commit leaves the stored
\* rows of P exactly as they were when it started, and no partly written
\* state is visible while it runs.
C4_AllOrNothing ==
  calc.pc \in {"loaded", "evaluated", "merged", "cleaned", "failed"} =>
    ExistingMatches(calc.org) = calc.existing

\* a run that failed after its merge and clean-up had changes pending
C4_Witness ==
  /\ calc.pc = "failed"
  /\ DOMAIN calc.upd # {}
  /\ calc.del # {}

ReleaseEnded == worker.pc = "fetch" /\ worker.last # "none"

\* the release parses and carries a title
WellFormed(rel) == rel.date # BadDate /\ rel.title # NullTitle

\* the alerts created since the release began, for one match
AlertsSince(o, n) ==
  {i \in (Len(worker.snap.alerts) + 1)..Len(alerts) :
     /\ alerts[i].org_id = o
     /\ alerts[i].notice_id = n
     /\ alerts[i].alert_type = "MATERIAL_CHANGE"}

\* C6: when the release just processed is the one that was last processed
\* successfully for its OCID, the stored notice row equals the row the first
\* pass left and the second pass created no alert.
C6_OcidIdempotent ==
  (ReleaseEnded /\ worker.first.ok /\ worker.first.rel = worker.rel)
    => /\ worker.rel.ocid \in DOMAIN notices
       /\ notices[worker.rel.ocid] = worker.first.row
       /\ Len(alerts) = Len(worker.snap.alerts)

\* C7: after a well-formed revision whose only material change is a value
\* differing by more than 10% from the stored value, every match of the notice
\* that was GO has exactly one new MATERIAL_CHANGE alert, verdict REVIEW and the
\* value message appended to its reasons.
C7_MaterialValueChange ==
  LET ocid == worker.rel.ocid
      before == worker.snap
  IN (/\ ReleaseEnded
      /\ WellFormed(worker.rel)
      /\ ocid \in DOMAIN before.notices
      /\ CheckForChanges(before.notices[ocid], MapReleaseToNotice(worker.rel)) = {"value"})
       => \A o \in Orgs :
            (/\ <<o, ocid>> \in DOMAIN before.matches
             /\ before.matches[<<o, ocid>>].feedback_status = "GO")
              => /\ Cardinality(AlertsSince(o, ocid)) = 1
                 /\ matches[<<o, ocid>>].feedback_status = "REVIEW"
                 /\ matches[<<o, ocid>>].recommendation_reasons =
                      before.matches[<<o, ocid>>].recommendation_reasons
                        \o <<AlertText("value")>>

\* C8: after a well-formed release for an OCID that was already stored has
\* been processed, the stored title, description, value, deadline and notice
\* type are those of that release.
C8_LastWriterWins ==
  LET ocid == worker.rel.ocid
      n == MapReleaseToNotice(worker.rel)
  IN (ReleaseEnded /\ WellFormed(worker.rel) /\ ocid \in DOMAIN worker.snap.notices)
       => /\ notices[ocid].title = n.title
          /\ notices[ocid].description = n.description
          /\ notices[ocid].value_amount = n.value_amount
          /\ notices[ocid].deadline_date = n.deadline_date
          /\ notices[ocid].notice_type = n.notice_type

\* C9: a release that raises is not counted and removes nothing: the count is
\* the number of releases committed in the run, each of them is still stored,
\* the worker goes on to fetch the next release, and a run whose fetch did not
\* fail ends SUCCESS with that count after the whole feed was tried.
C9_FailureIsolation ==
  /\ worker.pc # "idle"
       => /\ worker.count = Len(worker.done)
          /\ \A i \in DOMAIN worker.done : worker.done[i] \in DOMAIN notices
  /\ (worker.pc = "done" /\ ~worker.fatal)
       => /\ feed = <<>>
          /\ logs[worker.log].status = "SUCCESS"
          /\ logs[worker.log].items_processed = Len(worker.done)

\* a run in which a release failed after one was committed and before another
\* was committed, ended
C9_Witness ==
  /\ worker.pc = "done"
  /\ ~worker.fatal
  /\ worker.failed > 0
  /\ Len(worker.done) > 0
  /\ logs[worker.log].status = "SUCCESS"

\* C10: nothing a release writes is committed before the release's own
\* commit, and a release that failed has committed nothing.
C10_ReleaseAtomic ==
  /\ worker.pc \in {"enrich", "diff", "upsert"} => Committed = worker.snap
  /\ (ReleaseEnded /\ worker.last = "failed") => Committed = worker.snap

\* the log row of the run in progress or just finished
RunLog == logs[worker.log]

\* C11: the log of a run is RUNNING while the run works; when run() has
\* returned it is SUCCESS with items_processed equal to the number of releases
\* committed in the run, or FAILED with error_details set; only the log of
\* the run in progress is RUNNING, and a finished log row never changes.
C11_LogLifecycle ==
  /\ [](/\ worker.pc \in {"fetch", "enrich", "diff", "upsert"} => RunLog.status = "RUNNING"
        /\ worker.pc = "done"
             => \/ RunLog.status = "SUCCESS" /\ RunLog.items_processed = Len(worker.done)
                \/ RunLog.status = "FAILED" /\ RunLog.error_details # NULL
        /\ \A i \in DOMAIN logs :
             logs[i].status = "RUNNING"
               => worker.pc \in {"fetch", "enrich", "diff", "upsert"} /\ i = worker.log)
  /\ [][\A i \in DOMAIN logs :
          logs[i].status # "RUNNING" => i \in DOMAIN logs' /\ logs'[i] = logs[i]]_vars

\* a failed run followed by a run that committed a release and ended SUCCESS
C11_Witness ==
  /\ worker.pc = "done"
  /\ worker.log = 2
  /\ logs[1].status = "FAILED"
  /\ logs[2].status = "SUCCESS"
  /\ logs[2].items_processed > 0

\* the runs before the current one that ended SUCCESS
PriorSuccess == {i \in 1..(worker.log - 1) : logs[i].status = "SUCCESS"}

\* C12: a run whose fetch failed has a FAILED log with error_details and no
\* completion time, and the releases it committed are still stored; a run
\* started without a start date fetches from the completion time of the
\* latest earlier SUCCESS log, or from the epoch when there is none.
C12_FailedRunKeepsWatermark ==
  /\ (worker.pc = "done" /\ worker.fatal)
       => /\ RunLog.status = "FAILED"
          /\ RunLog.error_details # NULL
          /\ RunLog.completed_at = NullNum
          /\ \A i \in DOMAIN worker.done : worker.done[i] \in DOMAIN notices
  /\ (worker.pc # "idle" /\ ~worker.explicit)
       => IF PriorSuccess = {}
            THEN worker.start_date = Epoch
            ELSE \E i \in PriorSuccess :
                   /\ worker.start_date = logs[i].completed_at
                   /\ \A j \in PriorSuccess : logs[j].completed_at <= logs[i].completed_at

\* a run started without a start date right after a FAILED run that had
\* committed a release: it fetches from the epoch
C12_Witness ==
  /\ worker.pc = "fetch"
  /\ ~worker.explicit
  /\ worker.last = "none"
  /\ worker.log = 2
  /\ logs[1].status = "FAILED"
  /\ \E n \in Ocids : worker.seen[n].ok
  /\ worker.start_date = Epoch

\* C13: no mesh lookup returns a prefix set other than the 4-character
\* prefixes of the inferred CPV codes of all profiles as stored at the lookup.
C13_MeshFresh == ~worker.stale_lookup

\* the release has no CPV code, or one of its codes begins with a mesh prefix
InMesh(rel, mesh) ==
  \/ rel.cpv = {}
  \/ \E c \in rel.cpv : \E prefix \in mesh : SubSeq(c, 1, CpvPrefixLen) = prefix

AlertsFor(o, n, key) == {i \in AlertsSince(o, n) : alerts[i].message = AlertText(key)}

\* the messages appended for a set of change keys, in the order of the keys
AppendedMessages(changes) ==
  (IF "deadline" \in changes THEN <<AlertText("deadline")>> ELSE <<>>)
  \o (IF "value" \in changes THEN <<AlertText("value")>> ELSE <<>>)
  \o (IF "type" \in changes THEN <<AlertText("type")>> ELSE <<>>)

\* C15: when process_change(ocid, changes) has committed, every match of the
\* OCID has exactly one new MATERIAL_CHANGE alert per change key and the
\* messages appended to its reasons; its verdict is REVIEW if the changes
\* contain a value change and it was GO, and unchanged otherwise; matches of
\* other OCIDs are as before and no other alert was created.
C15_ProcessChange ==
  LET ocid == worker.rel.ocid
      before == worker.snap
      ch == worker.changes \cap {"deadline", "value", "type"}
  IN (worker.pc \in {"upsert", "changed"} /\ worker.changes # {})
       => /\ DOMAIN matches = DOMAIN before.matches
          /\ \A k \in DOMAIN matches :
               IF k[2] = ocid
                 THEN /\ \A key \in {"deadline", "value", "type"} :
                           Cardinality(AlertsFor(k[1], ocid, key))
                             = IF key \in ch THEN 1 ELSE 0
                      /\ Cardinality(AlertsSince(k[1], ocid)) = Cardinality(ch)
                      /\ matches[k].recommendation_reasons
                           = before.matches[k].recommendation_reasons \o AppendedMessages(ch)
                      /\ matches[k].feedback_status
                           = IF "value" \in ch /\ before.matches[k].feedback_status = "GO"
                               THEN "REVIEW"
                               ELSE before.matches[k].feedback_status
                      /\ [matches[k] EXCEPT !.recommendation_reasons = <<>>,
                                            !.feedback_status = "REVIEW"]
                           = [before.matches[k] EXCEPT !.recommendation_reasons = <<>>,
                                                       !.feedback_status = "REVIEW"]
                 ELSE matches[k] = before.matches[k]
          /\ Len(alerts) = Len(before.alerts)
               + Cardinality(ch) * Cardinality({k \in DOMAIN matches : k[2] = ocid})

\* process_change ran for a value, deadline and type change of a notice
\* that one profile matched GO and the other REVIEW, while a match of another
\* notice exists
C15_Witness ==
  LET ocid == worker.rel.ocid
      before == worker.snap
  IN /\ worker.pc = "changed"
     /\ worker.changes = {"deadline", "value", "type"}
     /\ \E k \in DOMAIN before.matches :
          k[2] = ocid /\ before.matches[k].feedback_status = "GO"
     /\ \E k \in DOMAIN before.matches :
          k[2] = ocid /\ before.matches[k].feedback_status = "REVIEW"
     /\ \E k \in DOMAIN matches : k[2] # ocid

\* C16: a call of check_for_changes with new data equal to the stored
\* notice's own deadline, value and notice type returns no change.
C16_NoChangeLaw ==
  (worker.pc = "returned" /\ worker.new = worker.existing)
    => ~worker.outcome.raised /\ worker.outcome.changes = {}

\* |new - old| / old > 0.10 for a non-zero old value, without division
TenthExceeded(old_value, new_value) ==
  LET d == IF new_value > old_value THEN new_value - old_value ELSE old_value - new_value
  IN IF old_value > 0 THEN 10 * d > old_value ELSE 10 * d < old_value

GateLotValue(lot) ==
  IF lot.amountGross # NullNum THEN lot.amountGross
  ELSE IF lot.amount # NullNum THEN lot.amount ELSE 0

\* V > 0.4 * I and no lot of value <= 0.4 * I, for an income I > 0
ValueRejected(profile, n) ==
  /\ profile.income > 0
  /\ n.value_amount # NullNum
  /\ 10 * n.value_amount > 4 * profile.income
  /\ \A i \in DOMAIN n.lots : 10 * GateLotValue(n.lots[i]) > 4 * profile.income

\* the candidate passes every hard gate but the value gate
PassesOtherThanValue(profile, n) ==
  ~DroppedVcse(n) /\ ~DroppedGeo(profile, n) /\ ~DroppedCpv(profile, n)
    /\ ~DroppedExclusion(profile, n)

CpvDisjoint(profile, n) ==
  /\ profile.inferred_cpv_codes # {}
  /\ n.cpv_codes # {}
  /\ \A a \in profile.inferred_cpv_codes, b \in n.cpv_codes :
       SubSeq(a, 1, Min(4, Len(a))) # SubSeq(b, 1, Min(4, Len(b)))

\* the candidate passes every hard gate but the CPV gate
PassesOtherThanCpv(profile, n) ==
  ~DroppedVcse(n) /\ ~DroppedValue(profile, n) /\ ~DroppedGeo(profile, n)
    /\ ~DroppedExclusion(profile, n)

\* C19: the CPV gate rejects a candidate, writing no row, exactly when both
\* CPV lists are non-empty and their 4-character prefix sets are disjoint;
\* a written row has domain score 1 when both lists are non-empty and 0.5
\* when either is empty.
C19_CpvGateLaw ==
  calc.pc = "committed" =>
    \A n \in DOMAIN calc.cands :
      LET profile == profiles[calc.org]
          cand == calc.cands[n]
          key == <<calc.org, n>>
      IN /\ CpvDisjoint(profile, cand) =>
              /\ n \notin DOMAIN calc.toWrite
              /\ key \in DOMAIN matches =>
                   n \in DOMAIN calc.existing /\ matches[key] = calc.existing[n]
         /\ PassesOtherThanCpv(profile, cand) =>
              (n \in DOMAIN calc.toWrite <=> ~CpvDisjoint(profile, cand))
         /\ n \in DOMAIN calc.toWrite =>
              /\ key \in DOMAIN matches
              /\ matches[key].score_domain =
                   (IF profile.inferred_cpv_codes = {} \/ cand.cpv_codes = {}
                      THEN 5000 ELSE 10000)

\* a candidate that only the CPV gate rejects
C19_Witness ==
  /\ calc.pc = "committed"
  /\ 1 \in DOMAIN calc.cands
  /\ CpvDisjoint(profiles[calc.org], calc.cands[1])
  /\ PassesOtherThanCpv(profiles[calc.org], calc.cands[1])
  /\ <<calc.org, 1>> \notin DOMAIN matches

\* the spellings of the national region names
NationalNames ==
  {"national", "National", "united kingdom", "United Kingdom", "uk", "UK"}

\* income above 5,000,000 or a region named national, united kingdom or uk
NationalProfileOf(profile) ==
  profile.income > 5000000 \/ profile.regions \cap NationalNames # {}

\* the regions a notice declares: delivery addresses, else buyer party address
DeclaredRegions(n) ==
  IF n.regions # {} THEN n.regions
  ELSE IF n.buyer_region # NULL THEN {n.buyer_region} ELSE {}

\* a declared region equals a profile region, ignoring case
RegionsOverlap(profile, n) ==
  \E a \in DeclaredRegions(n), b \in profile.regions : Lower(a) = Lower(b)

\* the candidate passes every hard gate but the geo gate
PassesOtherThanGeo(profile, n) ==
  ~DroppedVcse(n) /\ ~DroppedValue(profile, n) /\ ~DroppedCpv(profile, n)
    /\ ~DroppedExclusion(profile, n)

UnitScore(x) == x \in 0..10000

RowTotal(row) ==
  40 * row.score_semantic + 30 * row.score_theme + 20 * row.score_domain
    + 10 * row.score_geo

\* the lowercased title and description mention tupe
MentionsTupe(n) ==
  \E i \in DOMAIN n.title : n.title[i] \in {"tupe", "TUPE"}
    \/ \E j \in DOMAIN n.description : n.description[j] \in {"tupe", "TUPE"}

C23_VerdictDomain ==
  \A k \in DOMAIN matches :
    /\ matches[k].deep_verdict \in {"PASS", "FAIL", NULL}
    /\ matches[k].deep_verdict # NULL => matches[k].deep_rationale # NULL

\* what one review of profile o may touch
ReviewFrame(o, top, results) ==
  /\ Cardinality(top) <= 10
  /\ \A n \in top : \A m \in RowsOf(o) \ top :
       matches[<<o, m>>].score <= matches[<<o, n>>].score
  /\ DOMAIN matches' = DOMAIN matches
  /\ \A k \in DOMAIN matches :
       IF k[1] = o /\ k[2] \in top
         THEN matches'[k] = [matches[k] EXCEPT !.deep_verdict = matches'[k].deep_verdict,
                                               !.deep_rationale = matches'[k].deep_rationale]
         ELSE matches'[k] = matches[k]
  /\ (\A n \in Ocids : ~results[n].present) => matches' = matches
  /\ UNCHANGED <<profiles, notices, alerts>>

CycleDistance(history, cycle) ==
  LET y == YearsSince(MostRecentAge(DatedAges(history)))
  IN 2 * (IF y >= 10 * cycle THEN y - 10 * cycle ELSE 10 * cycle - y)

\* C25: with history the estimate is the cycle of {1, 2, 3, 5} nearest to the
\* years since the most recent publication when that distance is below 0.75,
\* and 3 otherwise; without a buyer or without history it is null and
\* buyer_seen_before is false.
C25_CycleEstimate ==
  worker.pc = "returned" =>
    IF worker.buyer = NULL \/ worker.history = <<>>
      THEN /\ ~worker.outcome.buyer_seen_before
           /\ worker.outcome.estimated_cycle_years = NullNum
      ELSE /\ worker.outcome.buyer_seen_before
           /\ worker.outcome.estimated_cycle_years \in {1, 2, 3, 5}
           /\ DatedAges(worker.history) # {} =>
                LET est == worker.outcome.estimated_cycle_years
                    near == {c \in {1, 2, 3, 5} :
                               \A d \in {1, 2, 3, 5} :
                                 CycleDistance(worker.history, c)
                                   <= CycleDistance(worker.history, d)}
                IN IF \E c \in near : CycleDistance(worker.history, c) < 15
                     THEN est \in near
                     ELSE est = 3

ReviewedSinceLoad ==
  {n \in DOMAIN calc.existing :
     /\ <<calc.org, n>> \in DOMAIN matches
     /\ matches[<<calc.org, n>>].deep_verdict # NULL
     /\ \/ matches[<<calc.org, n>>].deep_verdict # calc.existing[n].deep_verdict
        \/ matches[<<calc.org, n>>].deep_rationale # calc.existing[n].deep_rationale}

\* C27: a non-null deep_verdict that a Tier-2 review commits for (P, N) after
\* calculate_matches(P) loaded its rows and before it commits is still on the
\* row, with its rationale, after the commit, also when N is not in the new set.
C27_ReviewSurvivesCommit ==
  [][CalcCommit =>
       \A n \in ReviewedSinceLoad :
         /\ <<calc.org, n>> \in DOMAIN matches'
         /\ matches'[<<calc.org, n>>].deep_verdict = matches[<<calc.org, n>>].deep_verdict
         /\ matches'[<<calc.org, n>>].deep_rationale = matches[<<calc.org, n>>].deep_rationale]_vars

\* the rows of the running charity that process_change demoted: REVIEW with
\* the value ALERT in the reasons, while the unchanged data scores them GO
DemotedRows ==
  {n \in DOMAIN calc.upd :
     /\ <<calc.org, n>> \in DOMAIN matches
     /\ matches[<<calc.org, n>>].feedback_status = "REVIEW"
     /\ AlertText("value") \in Range(matches[<<calc.org, n>>].recommendation_reasons)
     /\ calc.upd[n].feedback_status = "GO"}

\* C28: a match that process_change demoted from GO to REVIEW is still REVIEW
\* and still carries the ALERT message in recommendation_reasons after a later
\* calculate_matches of its profile over unchanged notice and profile data.
C28_DemotionLasts ==
  [][CalcCommit =>
       \A n \in DemotedRows :
         /\ <<calc.org, n>> \in DOMAIN matches'
         /\ matches'[<<calc.org, n>>].feedback_status = "REVIEW"
         /\ AlertText("value") \in Range(matches'[<<calc.org, n>>].recommendation_reasons)]_vars

\* the rows of the running charity that are tracked
TrackedRows == {n \in RowsOf(calc.org) : matches[<<calc.org, n>>].is_tracked}

\* C29: a row with is_tracked = true, whether toggle_tracking set the flag on
\* an existing match or created the row as a shell, still exists with
\* is_tracked = true after a calculate_matches run of its profile, also when
\* its notice does not pass the funnel and the row has no Tier-2 verdict.
C29_TrackingSurvives ==
  [][CalcCommit =>
       \A n \in TrackedRows :
         /\ <<calc.org, n>> \in DOMAIN matches'
         /\ matches'[<<calc.org, n>>].is_tracked]_vars

\* C30: when a release of an already stored OCID has been processed
\* successfully, an embedding the stored notice had is still non-null and
\* inferred UKCAT codes it had are still there, whether or not the release was
\* mesh-matched, had a description, or found the embedding provider up.
C30_EnrichmentKept ==
  LET ocid == worker.rel.ocid
      before == worker.snap.notices
  IN (ReleaseEnded /\ worker.last = "ok" /\ ocid \in DOMAIN before)
       => /\ before[ocid].embedding # NULL => notices[ocid].embedding # NULL
          /\ before[ocid].inferred_ukcat_codes # {}
               => notices[ocid].inferred_ukcat_codes # {}


====
